---- MODULE Spec2Model ----
(***************************************************************************)
(* Model of the hetero_regs driver (driver_v3): the simulated register     *)
(* bank, the SEND_IPI / RESET control calls, the two deferred responder    *)
(* work items core0_response_work / core1_response_work, and the user      *)
(* program that drives them through the mapped registers (test_regs.c).    *)
(*                                                                         *)
(* Every memory access of a handler that can interleave with another       *)
(* context is one step; a caller or a work item carries its position (pc) *)
(* and its locals.  Registers are unsigned 32-bit words; all values that   *)
(* occur stay below 2^31.  The accesses of one context take effect in      *)
(* program order (the code has no barriers; a processor that reorders      *)
(* stores is outside this model).                                          *)
(***************************************************************************)
EXTENDS Integers, Naturals, Sequences, FiniteSets, TLC

(***************************************************************************)
(* Bounds of the model.                                                    *)
(***************************************************************************)
NumCallers  == 2     \* contexts issuing control calls concurrently
MaxCoreId   == 2     \* core_id arguments range over 0..MaxCoreId (2 is no channel)
MaxIpi      == 2     \* SEND_IPI calls started by concurrent callers in one behaviour
MaxCalls    == 2     \* SEND_IPI calls started by the user program in one behaviour
JiffiesInit == 255   \* tick counter at start (its low byte is about to wrap)
MaxTicks    == 1     \* timer ticks in one behaviour
MaxMask     == 3     \* largest lock mask a caller requests
MaxMapPages == 10    \* largest mapping requested, in pages
ShmModelled == 44    \* leading bytes of the shared memory region that are modelled
MaxMsgOps   == 3     \* message operations started on the v2 device in one behaviour

Callers  == 1..NumCallers
Channels == {0, 1}
CoreIds  == 0..MaxCoreId

(***************************************************************************)
(* Program constants.                                                      *)
(***************************************************************************)
CMD_PING        == 1        \* case 0x0001
CMD_STATUS      == 16       \* case 0x0010
CMD_OTHER       == 2        \* a command the switch has no case for
RESP_PONG       == 32769    \* 0x8001
RESP_STATUS     == 32784    \* 0x8010
RESP_UNKNOWN    == 65535    \* 0xFFFF
RESP_RT         == 20992    \* 0x5200
LOW_BYTE        == 255      \* 0xFF
IPI_ENABLE_INIT == 3        \* 0x03
MUTEX_ALL_FREE  == 65535    \* 0xFFFF
DATA_WORD       == 305419896 \* 0x12345678
EFAULT          == 14
EINVAL          == 22
ENOMEM          == 12
ENOTTY          == 25
HEAP_BYTE       == 165      \* a byte of kmalloc'ed memory nobody has written yet
FREED_WORD      == 1802201963 \* 0x6b6b6b6b, a word of freed memory under slab poisoning
NUM_CORES       == 6
PAGE_SIZE       == 4096     \* 1 << PAGE_SHIFT
REG_SPACE_SIZE  == 4096
SHARED_MEM_SIZE == 32768    \* 32 * 1024
TOTAL_SIZE      == REG_SPACE_SIZE + SHARED_MEM_SIZE

CmdVals == {CMD_PING, CMD_STATUS, CMD_OTHER}

(***************************************************************************)
(* u32 bit operations on naturals.                                         *)
(***************************************************************************)
RECURSIVE BitAnd(_, _)
BitAnd(a, b) ==
    IF a = 0 \/ b = 0 THEN 0
    ELSE (a % 2) * (b % 2) + 2 * BitAnd(a \div 2, b \div 2)

RECURSIVE BitOr(_, _)
BitOr(a, b) ==
    IF a = 0 THEN b
    ELSE IF b = 0 THEN a
    ELSE (IF a % 2 = 1 \/ b % 2 = 1 THEN 1 ELSE 0) + 2 * BitOr(a \div 2, b \div 2)

\* a & ~m on a u32
BitClear(a, m) == a - BitAnd(a, m)

\* (1 << core_id), for 0 <= core_id < 31
Bit(n) == 2 ^ n

(***************************************************************************)
(* State.                                                                  *)
(***************************************************************************)
VARIABLES
    regs,          \* struct hetero_hw_regs: field name -> u32
    ipi_count,     \* atomic_t ipi_count
    msg_count,     \* atomic_t msg_count
    jiffies,       \* kernel tick counter
    work_pending,  \* channel -> the work item is queued (WORK_STRUCT_PENDING)
    wk,            \* channel -> the work function's position and locals
    cl,            \* caller -> the user context's position and locals
    user_core,     \* int core_id of the user program (main of test_regs.c)
    last,          \* the control call that has just returned: op, arg (the core_id
                   \* of a SEND_IPI; for a RESET, 1 when it directly followed
                   \* another RESET), ret; NoCall after any other step
    calls,         \* SEND_IPI calls started
    ret_valid,     \* SEND_IPI calls on channel 0 or 1 that returned 0
    ret_invalid,   \* SEND_IPI calls on another core_id that returned 0
    was_reset,     \* a RESET has been issued
    shared_mem,    \* hdev->shared_mem: offset -> byte, for the first ShmModelled bytes;
                   \* the bytes after them are written by memset only
    mod,           \* the module: driver version, position in hetero_init /
                   \* hetero_exit, resources held, releases per resource, result
    hdev,          \* struct hetero_device of hetero_soc_v2: the four status fields
    ctx,           \* caller -> position and locals of its hetero_soc_v2 ioctl
    msg_done,      \* v2 message operations that have returned 0
    pinged         \* cores whose v2 PING returned 0 with no reset since it started

vars == <<regs, ipi_count, msg_count, jiffies, work_pending, wk, cl, user_core,
          last, calls, ret_valid, ret_invalid, was_reset,
          shared_mem, mod, hdev, ctx, msg_done, pinged>>

RegNames == {"ipi_status", "ipi_trigger", "ipi_clear", "ipi_enable",
             "mbox_main_to_core0_cmd", "mbox_main_to_core0_data",
             "mbox_core0_to_main_status", "mbox_core0_to_main_resp",
             "mbox_main_to_core1_cmd", "mbox_main_to_core1_data",
             "mbox_core1_to_main_status", "mbox_core1_to_main_resp",
             "hw_mutex_request", "hw_mutex_status", "hw_mutex_release"}

CmdReg(c)    == IF c = 0 THEN "mbox_main_to_core0_cmd" ELSE "mbox_main_to_core1_cmd"
DataReg(c)   == IF c = 0 THEN "mbox_main_to_core0_data" ELSE "mbox_main_to_core1_data"
StatusReg(c) == IF c = 0 THEN "mbox_core0_to_main_status" ELSE "mbox_core1_to_main_status"
RespReg(c)   == IF c = 0 THEN "mbox_core0_to_main_resp" ELSE "mbox_core1_to_main_resp"

\* struct hetero_info of a caller before any GET_INFO
NoInfo == [num_cores |-> 0, reg_size |-> 0, shared_size |-> 0, reg_base |-> 0,
           shared_base |-> 0]

WkIdle == [pc |-> "idle", cmd |-> 0, data |-> 0, tmp |-> 0]
ClIdle == [pc |-> "idle", mode |-> "none", core_id |-> 0, cmd |-> 0,
           from_idle |-> FALSE, tmp |-> 0, resp |-> 0,
           mask |-> 0, pre |-> 0, post |-> 0, prev |-> 0, clean |-> FALSE,
           mapped |-> 0, info |-> NoInfo]
NoCall == [op |-> "none", arg |-> 0, ret |-> 0, pre |-> 0]

\* a caller back at rest: its working fields are cleared, its mapping and the
\* struct hetero_info it was given stay
ClDone(p) == [ClIdle EXCEPT !.mapped = cl[p].mapped, !.info = cl[p].info]

\* sprintf(hdev->shared_mem, "6-Core Heterogeneous System Shared Memory\n"):
\* the 42 characters, then the terminating NUL
Banner == <<54, 45, 67, 111, 114, 101, 32, 72, 101, 116, 101, 114, 111, 103, 101,
            110, 101, 111, 117, 115, 32, 83, 121, 115, 116, 101, 109, 32, 83, 104,
            97, 114, 101, 100, 32, 77, 101, 109, 111, 114, 121, 10, 0>>

ShmOffsets == 0..(ShmModelled - 1)

\* memory filled with the byte b
ShmFill(b) == [i \in ShmOffsets |-> b]

\* sprintf(dst, ...) of the banner at the start of memory m
WriteBanner(m) == [i \in ShmOffsets |-> IF i < Len(Banner) THEN Banner[i + 1] ELSE m[i]]

\* what the module acquires: the device structure, the register and shared
\* memory block, the device number, the character device, the class, the node
Resources == {"hdev", "mem_base", "devno", "cdev", "class", "device"}

ModIdle == [ver |-> "v3", pc |-> "unloaded", held |-> {}, got |-> {},
            freed |-> [r \in Resources |-> 0], ret |-> 0, fail |-> "none",
            shared_off |-> 0, fds |-> {}]

\* the v3 module after a successful hetero_init
ModLoaded == [ModIdle EXCEPT !.pc = "loaded", !.held = Resources, !.got = Resources,
                             !.shared_off = REG_SPACE_SIZE]

\* hetero_soc_v2's hetero_init: the four status fields are set to 0
HdevInit == [io_core_status |-> 0, rt_core_status |-> 0, msg_count |-> 0, last_cmd |-> 0]

CtxIdle == [pc |-> "idle", op |-> "none", core_id |-> 0, tmp |-> 0, io |-> 0,
            clean |-> FALSE, seen |-> {}]

\* the variables of module loading and of the v2 device, after initialization
RestInit ==
    /\ shared_mem = WriteBanner(ShmFill(0))
    /\ mod = ModLoaded
    /\ hdev = HdevInit
    /\ ctx = [p \in Callers |-> CtxIdle]
    /\ msg_done = 0
    /\ pinged = {}

RestUnchanged == UNCHANGED <<shared_mem, mod, hdev, ctx, msg_done, pinged>>

\* memset(dev->regs, 0, sizeof(struct hetero_hw_regs))
ZeroRegs == [r \in RegNames |-> 0]

\* hetero_init: memset, then the two register defaults, the work items, the counters
Init ==
    /\ regs = [ZeroRegs EXCEPT !["ipi_enable"] = IPI_ENABLE_INIT,
                               !["hw_mutex_status"] = MUTEX_ALL_FREE]
    /\ ipi_count = 0
    /\ msg_count = 0
    /\ jiffies = JiffiesInit
    /\ work_pending = [c \in Channels |-> FALSE]
    /\ wk = [c \in Channels |-> WkIdle]
    /\ cl = [p \in Callers |-> ClIdle]
    /\ user_core \in Channels
    /\ last = NoCall
    /\ calls = 0
    /\ ret_valid = 0
    /\ ret_invalid = 0
    /\ was_reset = FALSE
    /\ RestInit

GhostsUnchanged == UNCHANGED <<user_core, calls, ret_valid, ret_invalid, was_reset>>

\* the timer interrupt advances jiffies
Tick ==
    /\ jiffies < JiffiesInit + MaxTicks
    /\ jiffies' = jiffies + 1
    /\ last' = NoCall
    /\ UNCHANGED <<regs, ipi_count, msg_count, work_pending, wk, cl>>
    /\ GhostsUnchanged
    /\ RestUnchanged

(***************************************************************************)
(* The responders: core0_response_work and core1_response_work.  The       *)
(* workqueue clears the pending flag when it starts the function and never *)
(* runs one work item in two places at once.                               *)
(***************************************************************************)
\* faulty variant: the default case writes no marker
Core0RespCodeNoDefault(cmd, j) ==
    CASE cmd = CMD_PING   -> RESP_PONG
      [] cmd = CMD_STATUS -> BitOr(RESP_STATUS, BitAnd(j, LOW_BYTE))
      [] OTHER            -> 0

\* faulty variant: the tick counter is OR'd in without the & 0xFF
Core0RespCodeNoMask(cmd, j) ==
    CASE cmd = CMD_PING   -> RESP_PONG
      [] cmd = CMD_STATUS -> BitOr(RESP_STATUS, j)
      [] OTHER            -> RESP_UNKNOWN

\* the switch (cmd) of core0_response_work, with the tick counter it reads
Core0RespCode(cmd, j) ==
    CASE cmd = CMD_PING   -> RESP_PONG
      [] cmd = CMD_STATUS -> BitOr(RESP_STATUS, BitAnd(j, LOW_BYTE))
      [] OTHER            -> RESP_UNKNOWN

\* 0x5200 | (jiffies & 0xFF)
Core1RespCode(j) == BitOr(RESP_RT, BitAnd(j, LOW_BYTE))

WorkStep(c, from, to) ==
    /\ wk[c].pc = from
    /\ wk' = [wk EXCEPT ![c].pc = to]

WorkFrame ==
    /\ last' = NoCall
    /\ RestUnchanged
    /\ UNCHANGED <<ipi_count, msg_count, jiffies, cl>>
    /\ GhostsUnchanged

\* the worker thread takes the queued item and enters the function
Core0Start ==
    /\ work_pending[0]
    /\ WorkStep(0, "idle", "rd_cmd")
    /\ work_pending' = [work_pending EXCEPT ![0] = FALSE]
    /\ UNCHANGED regs
    /\ WorkFrame

\* cmd = dev->regs->mbox_main_to_core0_cmd
Core0ReadCmd ==
    /\ wk[0].pc = "rd_cmd"
    /\ wk' = [wk EXCEPT ![0].pc = "rd_data",
                        ![0].cmd = regs["mbox_main_to_core0_cmd"]]
    /\ UNCHANGED <<regs, work_pending>>
    /\ WorkFrame

\* faulty variant: the responder does not test the command against 0
Core0ReadDataNoTest ==
    /\ wk[0].pc = "rd_data"
    /\ wk' = [wk EXCEPT ![0].pc = "wr_resp",
                        ![0].data = regs["mbox_main_to_core0_data"]]
    /\ UNCHANGED <<regs, work_pending>>
    /\ WorkFrame

\* data = dev->regs->mbox_main_to_core0_data; if (cmd != 0) { msleep(1); ...
\* msleep touches no state: the processing delay is the time the work item
\* spends at "wr_resp"
Core0ReadData ==
    /\ wk[0].pc = "rd_data"
    /\ wk' = [wk EXCEPT ![0].pc = IF wk[0].cmd # 0 THEN "wr_resp" ELSE "ipi_rd",
                        ![0].data = regs["mbox_main_to_core0_data"]]
    /\ UNCHANGED <<regs, work_pending>>
    /\ WorkFrame

\* faulty variant: the status is raised where the response should be stored
Core0WriteRespAsStatus ==
    /\ WorkStep(0, "wr_resp", "clr_cmd")
    /\ regs' = [regs EXCEPT !["mbox_core0_to_main_status"] = 1]
    /\ UNCHANGED work_pending
    /\ WorkFrame

\* switch (cmd): dev->regs->mbox_core0_to_main_resp = ...
Core0WriteResp ==
    /\ WorkStep(0, "wr_resp", "clr_cmd")
    /\ regs' = [regs EXCEPT !["mbox_core0_to_main_resp"] =
                                Core0RespCode(wk[0].cmd, jiffies)]
    /\ UNCHANGED work_pending
    /\ WorkFrame

\* faulty variant: the responder forgets to clear the command it processed
Core0ClearCmdKeep ==
    /\ WorkStep(0, "clr_cmd", "set_stat")
    /\ UNCHANGED <<regs, work_pending>>
    /\ WorkFrame

\* dev->regs->mbox_main_to_core0_cmd = 0
Core0ClearCmd ==
    /\ WorkStep(0, "clr_cmd", "set_stat")
    /\ regs' = [regs EXCEPT !["mbox_main_to_core0_cmd"] = 0]
    /\ UNCHANGED work_pending
    /\ WorkFrame

\* dev->regs->mbox_core0_to_main_status = 1
Core0SetStatus ==
    /\ WorkStep(0, "set_stat", "ipi_rd")
    /\ regs' = [regs EXCEPT !["mbox_core0_to_main_status"] = 1]
    /\ UNCHANGED work_pending
    /\ WorkFrame

\* dev->regs->ipi_status &= ~0x01: the load
Core0IpiRead ==
    /\ wk[0].pc = "ipi_rd"
    /\ wk' = [wk EXCEPT ![0].pc = "ipi_wr", ![0].tmp = regs["ipi_status"]]
    /\ UNCHANGED <<regs, work_pending>>
    /\ WorkFrame

\* dev->regs->ipi_status &= ~0x01: the store; the function returns
Core0IpiWrite ==
    /\ wk[0].pc = "ipi_wr"
    /\ regs' = [regs EXCEPT !["ipi_status"] = BitClear(wk[0].tmp, Bit(0))]
    /\ wk' = [wk EXCEPT ![0] = WkIdle]
    /\ UNCHANGED work_pending
    /\ WorkFrame

core0_response_work ==
    \/ Core0Start
    \/ Core0ReadCmd
    \/ Core0ReadData
    \/ Core0WriteResp
    \/ Core0ClearCmd
    \/ Core0SetStatus
    \/ Core0IpiRead
    \/ Core0IpiWrite

Core1Start ==
    /\ work_pending[1]
    /\ WorkStep(1, "idle", "wr_resp")
    /\ work_pending' = [work_pending EXCEPT ![1] = FALSE]
    /\ UNCHANGED regs
    /\ WorkFrame

\* faulty variant: the response is stored in channel 0's response register
Core1WriteRespChannel0 ==
    /\ WorkStep(1, "wr_resp", "set_stat")
    /\ regs' = [regs EXCEPT !["mbox_core0_to_main_resp"] = Core1RespCode(jiffies)]
    /\ UNCHANGED work_pending
    /\ WorkFrame

\* dev->regs->mbox_core1_to_main_resp = 0x5200 | (jiffies & 0xFF)
Core1WriteResp ==
    /\ WorkStep(1, "wr_resp", "set_stat")
    /\ regs' = [regs EXCEPT !["mbox_core1_to_main_resp"] = Core1RespCode(jiffies)]
    /\ UNCHANGED work_pending
    /\ WorkFrame

\* dev->regs->mbox_core1_to_main_status = 1
Core1SetStatus ==
    /\ WorkStep(1, "set_stat", "ipi_rd")
    /\ regs' = [regs EXCEPT !["mbox_core1_to_main_status"] = 1]
    /\ UNCHANGED work_pending
    /\ WorkFrame

\* dev->regs->ipi_status &= ~0x02: the load
Core1IpiRead ==
    /\ wk[1].pc = "ipi_rd"
    /\ wk' = [wk EXCEPT ![1].pc = "ipi_wr", ![1].tmp = regs["ipi_status"]]
    /\ UNCHANGED <<regs, work_pending>>
    /\ WorkFrame

\* dev->regs->ipi_status &= ~0x02: the store; the function returns
Core1IpiWrite ==
    /\ wk[1].pc = "ipi_wr"
    /\ regs' = [regs EXCEPT !["ipi_status"] = BitClear(wk[1].tmp, Bit(1))]
    /\ wk' = [wk EXCEPT ![1] = WkIdle]
    /\ UNCHANGED work_pending
    /\ WorkFrame

core1_response_work ==
    \/ Core1Start
    \/ Core1WriteResp
    \/ Core1SetStatus
    \/ Core1IpiRead
    \/ Core1IpiWrite

(***************************************************************************)
(* The control calls: hetero_ioctl.                                        *)
(***************************************************************************)
CallFrame ==
    /\ UNCHANGED <<msg_count, jiffies, wk>>
    /\ RestUnchanged

\* HETERO_IOC_SEND_IPI: copy_from_user fails, return -EFAULT
SendIpiFault(p) ==
    /\ cl[p].pc = "idle"
    /\ last' = [op |-> "send_ipi", arg |-> 0, ret |-> 0 - EFAULT, pre |-> 0]
    /\ UNCHANGED <<regs, ipi_count, work_pending, cl>>
    /\ CallFrame
    /\ GhostsUnchanged

\* HETERO_IOC_SEND_IPI: copy_from_user; dev->regs->ipi_trigger = (1 << core_id)
SendIpiTrigger(p, core) ==
    /\ \/ cl[p].pc = "idle"
       \/ cl[p].pc = "call_ipi" /\ core = cl[p].core_id
    /\ regs' = [regs EXCEPT !["ipi_trigger"] = Bit(core)]
    /\ cl' = [cl EXCEPT ![p].pc = "ipi_rd", ![p].core_id = core,
                        ![p].mode = IF cl[p].pc = "idle" THEN "ipi" ELSE cl[p].mode]
    /\ calls' = calls + 1
    /\ last' = NoCall
    /\ UNCHANGED <<ipi_count, work_pending, user_core, ret_valid, ret_invalid, was_reset>>
    /\ CallFrame

\* dev->regs->ipi_status |= (1 << core_id): the load
SendIpiRead(p) ==
    /\ cl[p].pc = "ipi_rd"
    /\ cl' = [cl EXCEPT ![p].pc = "ipi_wr", ![p].tmp = regs["ipi_status"]]
    /\ last' = NoCall
    /\ UNCHANGED <<regs, ipi_count, work_pending>>
    /\ CallFrame
    /\ GhostsUnchanged

\* faulty variant: the bit is assigned as ipi_trigger is, not or-ed in
SendIpiWriteAssign(p) ==
    /\ cl[p].pc = "ipi_wr"
    /\ regs' = [regs EXCEPT !["ipi_status"] = Bit(cl[p].core_id)]
    /\ cl' = [cl EXCEPT ![p].pc = "ipi_inc", ![p].tmp = 0]
    /\ last' = NoCall
    /\ UNCHANGED <<ipi_count, work_pending>>
    /\ CallFrame
    /\ GhostsUnchanged

\* dev->regs->ipi_status |= (1 << core_id): the store
SendIpiWrite(p) ==
    /\ cl[p].pc = "ipi_wr"
    /\ regs' = [regs EXCEPT !["ipi_status"] = BitOr(cl[p].tmp, Bit(cl[p].core_id))]
    /\ cl' = [cl EXCEPT ![p].pc = "ipi_inc", ![p].tmp = 0]
    /\ last' = NoCall
    /\ UNCHANGED <<ipi_count, work_pending>>
    /\ CallFrame
    /\ GhostsUnchanged

\* atomic_inc(&dev->ipi_count)
atomic_inc(v) == v + 1

\* faulty variant: the increment sits inside the if (core_id == 0) branch
SendIpiIncCore0Only(p) ==
    /\ cl[p].pc = "ipi_inc"
    /\ ipi_count' = IF cl[p].core_id = 0 THEN atomic_inc(ipi_count) ELSE ipi_count
    /\ cl' = [cl EXCEPT ![p].pc = "ipi_sched"]
    /\ last' = NoCall
    /\ UNCHANGED <<regs, work_pending, msg_count, jiffies, wk>>
    /\ GhostsUnchanged
    /\ RestUnchanged

SendIpiInc(p) ==
    /\ cl[p].pc = "ipi_inc"
    /\ ipi_count' = atomic_inc(ipi_count)
    /\ cl' = [cl EXCEPT ![p].pc = "ipi_sched"]
    /\ last' = NoCall
    /\ UNCHANGED <<regs, work_pending>>
    /\ CallFrame
    /\ GhostsUnchanged

\* faulty variant: the item is not queued while its function is running
schedule_work_idle(c) ==
    [work_pending EXCEPT ![c] = work_pending[c] \/ wk[c].pc = "idle"]

\* schedule_work(&work): queues the item unless it is queued already
schedule_work(c) == [work_pending EXCEPT ![c] = TRUE]

\* faulty variant: the response is produced in the caller's context instead of
\* being queued
SendIpiSchedInline(p) ==
    /\ cl[p].pc = "ipi_sched"
    /\ regs' = IF cl[p].core_id \in Channels
               THEN [regs EXCEPT ![RespReg(cl[p].core_id)] = Core1RespCode(jiffies),
                                 ![StatusReg(cl[p].core_id)] = 1]
               ELSE regs
    /\ cl' = [cl EXCEPT ![p] = IF cl[p].mode = "mbox"
                                 THEN [cl[p] EXCEPT !.pc = "poll"]
                                 ELSE ClDone(p)]
    /\ last' = [op |-> "send_ipi", arg |-> cl[p].core_id, ret |-> 0, pre |-> 0]
    /\ ret_valid' = IF cl[p].core_id \in Channels THEN ret_valid + 1 ELSE ret_valid
    /\ ret_invalid' = IF cl[p].core_id \in Channels THEN ret_invalid ELSE ret_invalid + 1
    /\ UNCHANGED <<work_pending, ipi_count, user_core, calls, was_reset>>
    /\ CallFrame

\* if (core_id == 0) schedule_work(&dev->core0_work);
\* else if (core_id == 1) schedule_work(&dev->core1_work);  break; return ret (0)
SendIpiSched(p) ==
    /\ cl[p].pc = "ipi_sched"
    /\ work_pending' = IF cl[p].core_id = 0 THEN schedule_work(0)
                       ELSE IF cl[p].core_id = 1 THEN schedule_work(1)
                       ELSE work_pending
    /\ cl' = [cl EXCEPT ![p] = IF cl[p].mode = "mbox"
                                 THEN [cl[p] EXCEPT !.pc = "poll"]
                                 ELSE ClDone(p)]
    /\ last' = [op |-> "send_ipi", arg |-> cl[p].core_id, ret |-> 0, pre |-> 0]
    /\ ret_valid' = IF cl[p].core_id \in Channels THEN ret_valid + 1 ELSE ret_valid
    /\ ret_invalid' = IF cl[p].core_id \in Channels THEN ret_invalid ELSE ret_invalid + 1
    /\ UNCHANGED <<regs, ipi_count, user_core, calls, was_reset>>
    /\ CallFrame

\* faulty variant: the reset clears the IPI block only
ResetRegsIpiOnly(r) ==
    [r EXCEPT !["ipi_status"] = 0, !["ipi_trigger"] = 0,
              !["ipi_clear"] = 0, !["ipi_enable"] = 0]

\* faulty variant: the reset acknowledges what was pending by copying it to ipi_clear
ResetRegsAck(r) ==
    [f \in DOMAIN r |-> IF f = "ipi_clear" THEN r["ipi_status"] ELSE 0]

\* HETERO_IOC_RESET: memset(dev->regs, 0, ...); atomic_set(ipi_count, 0);
\* atomic_set(msg_count, 0); return 0
ResetRegs(r) == [f \in DOMAIN r |-> 0]

Reset(p) ==
    /\ cl[p].pc = "idle"
    /\ regs' = ResetRegs(regs)
    /\ ipi_count' = 0
    /\ msg_count' = 0
    /\ last' = [op |-> "reset", arg |-> IF last.op = "reset" THEN 1 ELSE 0,
                ret |-> 0, pre |-> ipi_count]
    /\ was_reset' = TRUE
    /\ UNCHANGED <<jiffies, work_pending, wk, cl, user_core, calls, ret_valid, ret_invalid>>
    /\ RestUnchanged

(***************************************************************************)
(* The user program (main of test_regs.c, test 3), for any channel and     *)
(* command: write the data word and the command through the mapping, call  *)
(* SEND_IPI, poll the status register, read the response, clear status.    *)
(***************************************************************************)
UserFrame ==
    /\ last' = NoCall
    /\ RestUnchanged
    /\ UNCHANGED <<ipi_count, msg_count, jiffies, work_pending, wk>>
    /\ GhostsUnchanged

\* REG_WRITE32(reg_base, MBOX_M2C0_DATA, 0x12345678)
MboxWriteData(p, v) ==
    /\ cl[p].pc = "idle"
    /\ regs' = [regs EXCEPT ![DataReg(user_core)] = DATA_WORD]
    /\ cl' = [cl EXCEPT ![p].pc = "wr_cmd", ![p].mode = "mbox",
                        ![p].core_id = user_core, ![p].cmd = v]
    /\ UserFrame

\* REG_WRITE32(reg_base, MBOX_M2C0_CMD, cmd); from_idle records whether the
\* channel was idle (no command, no response) when the command was written
MboxWriteCmd(p) ==
    /\ cl[p].pc = "wr_cmd"
    /\ regs' = [regs EXCEPT ![CmdReg(cl[p].core_id)] = cl[p].cmd]
    /\ cl' = [cl EXCEPT ![p].pc = "call_ipi",
                        ![p].from_idle = /\ regs[CmdReg(cl[p].core_id)] = 0
                                         /\ regs[StatusReg(cl[p].core_id)] = 0]
    /\ UserFrame

\* if (REG_READ32(reg_base, MBOX_C02M_STAT) != 0)
PollStatus(p) ==
    /\ cl[p].pc = "poll"
    /\ regs[StatusReg(cl[p].core_id)] # 0
    /\ cl' = [cl EXCEPT ![p].pc = "rd_resp"]
    /\ UNCHANGED regs
    /\ UserFrame

\* while (timeout-- > 0) runs out with the status still 0
PollTimeout(p) ==
    /\ cl[p].pc = "poll"
    /\ regs[StatusReg(cl[p].core_id)] = 0
    /\ cl' = [cl EXCEPT ![p] = ClDone(p)]
    /\ UNCHANGED regs
    /\ UserFrame

\* uint32_t resp = REG_READ32(reg_base, MBOX_C02M_RESP)
PollResp(p) ==
    /\ cl[p].pc = "rd_resp"
    /\ cl' = [cl EXCEPT ![p].pc = "clr_stat", ![p].resp = regs[RespReg(cl[p].core_id)]]
    /\ UNCHANGED regs
    /\ UserFrame

\* faulty variant: the caller acknowledges by clearing the response as well
PollClearBoth(p) ==
    /\ cl[p].pc = "clr_stat"
    /\ regs' = [regs EXCEPT ![StatusReg(cl[p].core_id)] = 0, ![RespReg(cl[p].core_id)] = 0]
    /\ cl' = [cl EXCEPT ![p] = ClDone(p)]
    /\ UserFrame

\* REG_WRITE32(reg_base, MBOX_C02M_STAT, 0); break
PollClear(p) ==
    /\ cl[p].pc = "clr_stat"
    /\ regs' = [regs EXCEPT ![StatusReg(cl[p].core_id)] = 0]
    /\ cl' = [cl EXCEPT ![p] = ClDone(p)]
    /\ UserFrame

(***************************************************************************)
(* The system under the user program: one user context (the main of       *)
(* test_regs.c on its channel, which may also call SEND_IPI alone, as its  *)
(* test 2 does, and RESET), the two responders and the clock.              *)
(***************************************************************************)
User == {p \in Callers : p = 1}

Next ==
    \/ Tick
    \/ core0_response_work
    \/ core1_response_work
    \/ \E p \in User, core \in CoreIds : calls < MaxCalls /\ SendIpiTrigger(p, core)
    \/ \E p \in User : SendIpiRead(p)
    \/ \E p \in User : SendIpiWrite(p)
    \/ \E p \in User : SendIpiInc(p)
    \/ \E p \in User : SendIpiSched(p)
    \/ \E p \in User : Reset(p)
    \/ \E p \in User, v \in CmdVals : calls < MaxCalls /\ MboxWriteData(p, v)
    \/ \E p \in User : MboxWriteCmd(p)
    \/ \E p \in User : PollStatus(p)
    \/ \E p \in User : PollTimeout(p)
    \/ \E p \in User : PollResp(p)
    \/ \E p \in User : PollClear(p)

Spec == Init /\ [][Next]_vars

(***************************************************************************)
(* The dispatcher under concurrent callers: NumCallers contexts call       *)
(* SEND_IPI with any core_id while the responders run; nobody resets.      *)
(***************************************************************************)
\* a PING sits in the channel 0 mailbox, written through the mapping before
\* the calls start
InitIpi ==
    /\ regs = [ZeroRegs EXCEPT !["ipi_enable"] = IPI_ENABLE_INIT,
                               !["hw_mutex_status"] = MUTEX_ALL_FREE,
                               !["mbox_main_to_core0_cmd"] = CMD_PING]
    /\ ipi_count = 0
    /\ msg_count = 0
    /\ jiffies = JiffiesInit
    /\ work_pending = [c \in Channels |-> FALSE]
    /\ wk = [c \in Channels |-> WkIdle]
    /\ cl = [p \in Callers |-> ClIdle]
    /\ user_core = 0
    /\ last = NoCall
    /\ calls = 0
    /\ ret_valid = 0
    /\ ret_invalid = 0
    /\ was_reset = FALSE
    /\ RestInit

NextIpi ==
    \/ core0_response_work
    \/ core1_response_work
    \/ \E p \in Callers : SendIpiFault(p)
    \/ \E p \in Callers, core \in CoreIds : calls < MaxIpi /\ SendIpiTrigger(p, core)
    \/ \E p \in Callers : SendIpiRead(p)
    \/ \E p \in Callers : SendIpiWrite(p)
    \/ \E p \in Callers : SendIpiInc(p)
    \/ \E p \in Callers : SendIpiSched(p)

SpecIpi == InitIpi /\ [][NextIpi]_vars

(***************************************************************************)
(* The hardware mutex registers as the user program drives them (main of   *)
(* test_regs.c, test 4), for any lock mask and any number of callers.  The *)
(* driver keeps hw_mutex_request, hw_mutex_status and hw_mutex_release as  *)
(* plain words of the mapped register page; nothing in it reacts to a      *)
(* write.                                                                  *)
(***************************************************************************)
MutexMasks == 1..MaxMask

\* mutex_stat = REG_READ32(reg_base, HW_MUTEX_STAT)
MutexReadStat(p, m) ==
    /\ cl[p].pc = "idle"
    /\ cl' = [cl EXCEPT ![p].pc = "mtx_req", ![p].mode = "mutex", ![p].mask = m,
                        ![p].pre = regs["hw_mutex_status"]]
    /\ UNCHANGED regs
    /\ UserFrame

\* REG_WRITE32(reg_base, HW_MUTEX_REQ, mask)
MutexRequest(p) ==
    /\ cl[p].pc = "mtx_req"
    /\ regs' = [regs EXCEPT !["hw_mutex_request"] = cl[p].mask]
    /\ cl' = [cl EXCEPT ![p].pc = "mtx_rd"]
    /\ UserFrame

\* mutex_stat = REG_READ32(reg_base, HW_MUTEX_STAT)
MutexReadBack(p) ==
    /\ cl[p].pc = "mtx_rd"
    /\ cl' = [cl EXCEPT ![p].pc = "mtx_held", ![p].post = regs["hw_mutex_status"]]
    /\ UNCHANGED regs
    /\ UserFrame

\* REG_WRITE32(reg_base, HW_MUTEX_REL, mask)
MutexRelease(p) ==
    /\ cl[p].pc = "mtx_held"
    /\ regs' = [regs EXCEPT !["hw_mutex_release"] = cl[p].mask]
    /\ cl' = [cl EXCEPT ![p].pc = "mtx_rel_rd"]
    /\ UserFrame

\* mutex_stat = REG_READ32(reg_base, HW_MUTEX_STAT)
MutexReadFinal(p) ==
    /\ cl[p].pc = "mtx_rel_rd"
    /\ cl' = [cl EXCEPT ![p] = [ClDone(p) EXCEPT !.post = regs["hw_mutex_status"]]]
    /\ UNCHANGED regs
    /\ UserFrame

InitMutex == Init /\ user_core = 0

NextMutex ==
    \/ \E p \in Callers, m \in MutexMasks : MutexReadStat(p, m)
    \/ \E p \in Callers : MutexRequest(p)
    \/ \E p \in Callers : MutexReadBack(p)
    \/ \E p \in Callers : MutexRelease(p)
    \/ \E p \in Callers : MutexReadFinal(p)
    \/ \E p \in Callers : Reset(p)

SpecMutex == InitMutex /\ [][NextMutex]_vars

(***************************************************************************)
(* The other entry points of the device: GET_INFO, mmap and the unmapping  *)
(* of a region by its owner.  cl[p].mapped is the size of the mapping      *)
(* caller p holds (0: none).                                               *)
(***************************************************************************)
\* faulty variant: shared_base is given as an address relative to the shared
\* region, like reg_base
HeteroInfoZeroBase == [num_cores |-> NUM_CORES, reg_size |-> REG_SPACE_SIZE,
                       shared_size |-> SHARED_MEM_SIZE, reg_base |-> 0,
                       shared_base |-> 0]

\* info.num_cores = 6; info.reg_size = REG_SPACE_SIZE; info.shared_size =
\* SHARED_MEM_SIZE; info.reg_base = 0; info.shared_base = REG_SPACE_SIZE
HeteroInfo == [num_cores |-> NUM_CORES, reg_size |-> REG_SPACE_SIZE,
               shared_size |-> SHARED_MEM_SIZE, reg_base |-> 0,
               shared_base |-> REG_SPACE_SIZE]

\* HETERO_IOC_GET_INFO: fill the info structure, copy_to_user (ok: it succeeds
\* and the caller's structure holds the copy; otherwise return -EFAULT)
GetInfo(p, ok) ==
    /\ cl[p].pc = "idle"
    /\ cl' = IF ok THEN [cl EXCEPT ![p].info = HeteroInfo] ELSE cl
    /\ last' = [op |-> "get_info", arg |-> 0,
                ret |-> IF ok THEN 0 ELSE 0 - EFAULT, pre |-> 0]
    /\ UNCHANGED <<regs, ipi_count, work_pending>>
    /\ CallFrame
    /\ GhostsUnchanged

\* faulty variant: an unrecognized cmd is first handled as a reset of the counter
UnknownIoctlReset(p) ==
    /\ cl[p].pc = "idle"
    /\ ipi_count' = 0
    /\ last' = [op |-> "unknown", arg |-> 0, ret |-> 0 - EINVAL, pre |-> 0]
    /\ UNCHANGED <<regs, work_pending, cl>>
    /\ CallFrame
    /\ GhostsUnchanged

\* hetero_ioctl with a cmd the switch has no case for: default: ret = -EINVAL
UnknownIoctl(p) ==
    /\ cl[p].pc = "idle"
    /\ last' = [op |-> "unknown", arg |-> 0, ret |-> 0 - EINVAL, pre |-> 0]
    /\ UNCHANGED <<regs, ipi_count, work_pending, cl>>
    /\ CallFrame
    /\ GhostsUnchanged

\* what remap_pfn_range can return: 0, or an error of the kernel
RemapResults == {0, 0 - ENOMEM, 0 - EINVAL}

\* faulty variant: the size check rejects the full region too
MmapResultStrict(size, r) == IF size >= TOTAL_SIZE THEN 0 - EINVAL ELSE r

\* hetero_mmap's return value: if (size > TOTAL_SIZE) return -EINVAL;
\* ret = remap_pfn_range(...); if (ret) return ret; return 0
MmapResult(size, r) == IF size > TOTAL_SIZE THEN 0 - EINVAL ELSE r

\* hetero_mmap for a region of size bytes, remap_pfn_range returning r; the
\* region is mapped exactly when the function returns 0.  last.pre records
\* what remap_pfn_range returned when it was called
Mmap(p, size, r) ==
    /\ cl[p].pc = "idle"
    /\ cl[p].mapped = 0
    /\ cl' = [cl EXCEPT ![p].mapped = IF MmapResult(size, r) = 0 THEN size ELSE 0]
    /\ last' = [op |-> "mmap", arg |-> size, ret |-> MmapResult(size, r),
                pre |-> IF size > TOTAL_SIZE THEN 0 ELSE r]
    /\ UNCHANGED <<regs, ipi_count, work_pending>>
    /\ CallFrame
    /\ GhostsUnchanged

\* munmap(mapped_mem, total_size) by the owner
Munmap(p) ==
    /\ cl[p].pc = "idle"
    /\ cl[p].mapped # 0
    /\ cl' = [cl EXCEPT ![p].mapped = 0]
    /\ UNCHANGED regs
    /\ UserFrame

MapSizes == {n * PAGE_SIZE : n \in 1..MaxMapPages}

NextMap ==
    \/ \E p \in Callers, ok \in BOOLEAN : GetInfo(p, ok)
    \/ \E p \in Callers, size \in MapSizes, r \in RemapResults : Mmap(p, size, r)
    \/ \E p \in Callers : Munmap(p)

SpecMap == InitMutex /\ [][NextMap]_vars

(***************************************************************************)
(* Every entry point but RESET, called by one process while both           *)
(* responders run: SEND_IPI for any core_id, GET_INFO, mmap and munmap.    *)
(* A PING is waiting in channel 0's command register.                      *)
(***************************************************************************)
NextOps ==
    \/ core0_response_work
    \/ core1_response_work
    \/ \E p \in User, core \in CoreIds : calls < MaxCalls /\ SendIpiTrigger(p, core)
    \/ \E p \in User : SendIpiRead(p)
    \/ \E p \in User : SendIpiWrite(p)
    \/ \E p \in User : SendIpiInc(p)
    \/ \E p \in User : SendIpiSched(p)
    \/ \E p \in User, ok \in BOOLEAN : GetInfo(p, ok)
    \/ \E p \in User, size \in MapSizes, r \in RemapResults : Mmap(p, size, r)
    \/ \E p \in User : Munmap(p)
    \/ \E p \in User : UnknownIoctl(p)

SpecOps == InitIpi /\ [][NextOps]_vars

(***************************************************************************)
(* A caller that replaces its command before signalling: the mailbox is    *)
(* ordinary mapped memory, so a second REG_WRITE32 to the command register *)
(* simply stores over the first.  One caller on channel 0, which may also  *)
(* call SEND_IPI(0) alone, and the channel-0 responder.                    *)
(***************************************************************************)
\* REG_WRITE32(reg_base, MBOX_M2C0_CMD, v) a second time, before the ioctl;
\* prev keeps the replaced command, clean records that at this write the
\* responder had not read the register in a run still in progress and no
\* response was waiting
MboxOverwriteCmd(p, v) ==
    /\ cl[p].pc = "call_ipi"
    /\ cl[p].prev = 0
    /\ v # cl[p].cmd
    /\ regs' = [regs EXCEPT ![CmdReg(cl[p].core_id)] = v]
    /\ cl' = [cl EXCEPT ![p].prev = cl[p].cmd, ![p].cmd = v,
                        ![p].clean = /\ wk[cl[p].core_id].pc \in {"idle", "rd_cmd"}
                                     /\ regs[StatusReg(cl[p].core_id)] = 0]
    /\ UserFrame

InitOverwrite == Init /\ user_core = 0

NextOverwrite ==
    \/ core0_response_work
    \/ \E p \in User : calls < MaxCalls /\ SendIpiTrigger(p, 0)
    \/ \E p \in User : SendIpiRead(p)
    \/ \E p \in User : SendIpiWrite(p)
    \/ \E p \in User : SendIpiInc(p)
    \/ \E p \in User : SendIpiSched(p)
    \/ \E p \in User, v \in CmdVals : calls < MaxCalls /\ MboxWriteData(p, v)
    \/ \E p \in User : MboxWriteCmd(p)
    \/ \E p \in User, v \in CmdVals : MboxOverwriteCmd(p, v)
    \/ \E p \in User : PollStatus(p)
    \/ \E p \in User : PollTimeout(p)
    \/ \E p \in User : PollResp(p)
    \/ \E p \in User : PollClear(p)

SpecOverwrite == InitOverwrite /\ [][NextOverwrite]_vars

\* the overwriting caller with the workqueue's guarantee for the queued item
FairSpecOverwrite == SpecOverwrite /\ WF_vars(core0_response_work)

(***************************************************************************)
(* A caller that keeps to the mailbox protocol: one message at a time on   *)
(* its channel, it waits for the status to become non-zero, reads the      *)
(* response and clears the status before the next message; it neither      *)
(* gives up polling nor resets.  Both responders and the clock run.        *)
(***************************************************************************)
NextCompliant ==
    \/ Tick
    \/ core0_response_work
    \/ core1_response_work
    \/ \E p \in User, v \in CmdVals : calls < MaxCalls /\ MboxWriteData(p, v)
    \/ \E p \in User : MboxWriteCmd(p)
    \/ \E p \in User : cl[p].pc = "call_ipi" /\ SendIpiTrigger(p, cl[p].core_id)
    \/ \E p \in User : SendIpiRead(p)
    \/ \E p \in User : SendIpiWrite(p)
    \/ \E p \in User : SendIpiInc(p)
    \/ \E p \in User : SendIpiSched(p)
    \/ \E p \in User : PollStatus(p)
    \/ \E p \in User : PollResp(p)
    \/ \E p \in User : PollClear(p)

SpecCompliant == Init /\ [][NextCompliant]_vars

(***************************************************************************)
(* Loading and unloading the module: hetero_init and hetero_exit of the    *)
(* register driver (v3) and of hetero_soc_v2 (v2), one kernel call a step. *)
(* Every call that can fail does so for any of LoadErrors.  No file is     *)
(* open while the module loads or unloads.                                 *)
(***************************************************************************)
Versions == {"v2", "v3"}

LoadErrors == {0 - ENOMEM, 0 - EINVAL}

Acquire(m, r) == [m EXCEPT !.held = @ \cup {r}, !.got = @ \cup {r}]

\* kfree / unregister_chrdev_region / cdev_del / class_destroy / device_destroy
Release(m, r) == [m EXCEPT !.held = @ \ {r}, !.freed[r] = @ + 1]

\* a word read from memory that has been kfree'd: still the value stored (v),
\* zero (init_on_free), or the poison pattern (slab debugging)
FreedRead(v) == {v, 0, FREED_WORD}

LoadFrame ==
    /\ last' = NoCall
    /\ UNCHANGED <<jiffies, wk, cl, ctx, msg_done, pinged>>
    /\ GhostsUnchanged

\* hdev = kzalloc(sizeof(struct hetero_device), GFP_KERNEL); if (!hdev) return
\* -ENOMEM.  For v2 the four status fields are then set to 0, which kzalloc
\* has done already
InitKzalloc(v, ok) ==
    /\ mod.pc \in {"unloaded", "failed"}
    /\ mod' = IF ok
              THEN Acquire([ModIdle EXCEPT !.ver = v,
                                           !.pc = IF v = "v3" THEN "kmalloc" ELSE "chrdev"],
                           "hdev")
              ELSE [ModIdle EXCEPT !.ver = v, !.pc = "failed", !.ret = 0 - ENOMEM,
                                   !.fail = "kzalloc"]
    /\ hdev' = HdevInit
    /\ UNCHANGED <<regs, ipi_count, msg_count, work_pending, shared_mem>>
    /\ LoadFrame

\* hdev->mem_base = kmalloc(TOTAL_SIZE, GFP_KERNEL): memory with any content g;
\* on failure kfree(hdev); return -ENOMEM
InitKmalloc(ok, g) ==
    /\ mod.pc = "kmalloc"
    /\ IF ok
       THEN /\ mod' = [Acquire(mod, "mem_base") EXCEPT !.pc = "pointers"]
            /\ regs' = [r \in RegNames |-> g]
            /\ shared_mem' = ShmFill(g)
       ELSE /\ mod' = [mod EXCEPT !.pc = "err_hdev", !.ret = 0 - ENOMEM, !.fail = "kmalloc"]
            /\ UNCHANGED <<regs, shared_mem>>
    /\ UNCHANGED <<ipi_count, msg_count, work_pending, hdev>>
    /\ LoadFrame

\* hdev->regs = mem_base; hdev->shared_mem = hdev->mem_base + REG_SPACE_SIZE
InitPointers ==
    /\ mod.pc = "pointers"
    /\ mod' = [mod EXCEPT !.pc = "memset", !.shared_off = REG_SPACE_SIZE]
    /\ UNCHANGED <<regs, ipi_count, msg_count, work_pending, hdev, shared_mem>>
    /\ LoadFrame

\* faulty variant: only the register page is cleared
InitMemsetRegsOnly ==
    /\ mod.pc = "memset"
    /\ mod' = [mod EXCEPT !.pc = "defaults"]
    /\ regs' = ZeroRegs
    /\ UNCHANGED <<ipi_count, msg_count, work_pending, hdev, shared_mem>>
    /\ LoadFrame

\* memset(hdev->mem_base, 0, TOTAL_SIZE)
InitMemset ==
    /\ mod.pc = "memset"
    /\ mod' = [mod EXCEPT !.pc = "defaults"]
    /\ regs' = ZeroRegs
    /\ shared_mem' = ShmFill(0)
    /\ UNCHANGED <<ipi_count, msg_count, work_pending, hdev>>
    /\ LoadFrame

\* hdev->regs->ipi_enable = 0x03; hdev->regs->hw_mutex_status = 0xFFFF
InitDefaults ==
    /\ mod.pc = "defaults"
    /\ mod' = [mod EXCEPT !.pc = "sprintf"]
    /\ regs' = [regs EXCEPT !["ipi_enable"] = IPI_ENABLE_INIT,
                            !["hw_mutex_status"] = MUTEX_ALL_FREE]
    /\ UNCHANGED <<ipi_count, msg_count, work_pending, hdev, shared_mem>>
    /\ LoadFrame

\* sprintf(hdev->shared_mem, "6-Core Heterogeneous System Shared Memory\n")
InitBanner ==
    /\ mod.pc = "sprintf"
    /\ mod' = [mod EXCEPT !.pc = "init_work"]
    /\ shared_mem' = WriteBanner(shared_mem)
    /\ UNCHANGED <<regs, ipi_count, msg_count, work_pending, hdev>>
    /\ LoadFrame

\* INIT_WORK twice; atomic_set(&hdev->ipi_count, 0); atomic_set(&hdev->msg_count, 0)
InitWork ==
    /\ mod.pc = "init_work"
    /\ mod' = [mod EXCEPT !.pc = "chrdev"]
    /\ work_pending' = [c \in Channels |-> FALSE]
    /\ ipi_count' = 0
    /\ msg_count' = 0
    /\ UNCHANGED <<regs, hdev, shared_mem>>
    /\ LoadFrame

\* a call of hetero_init that acquires resource r or fails with error e (e = 0:
\* it succeeds); on failure control goes to the clean-up at position err
InitAcquire(at, r, e, next, err) ==
    /\ mod.pc = at
    /\ mod' = IF e = 0
              THEN [Acquire(mod, r) EXCEPT !.pc = next]
              ELSE [mod EXCEPT !.pc = err, !.ret = e, !.fail = at]
    /\ UNCHANGED <<regs, ipi_count, msg_count, work_pending, hdev, shared_mem>>
    /\ LoadFrame

\* ret = alloc_chrdev_region(...); if (ret < 0) goto err_free (v2: kfree(hdev))
InitChrdev(e) ==
    InitAcquire("chrdev", "devno", e, "cdev_add",
                IF mod.ver = "v3" THEN "err_free" ELSE "err_hdev")

\* ret = cdev_add(...); if (ret) goto err_unreg
InitCdevAdd(e) == InitAcquire("cdev_add", "cdev", e, "class", "err_unreg")

\* hdev->class = class_create(...); if (IS_ERR(hdev->class)) goto err_cdev
InitClass(e) == InitAcquire("class", "class", e, "device", "err_cdev")

\* hdev->device = device_create(...); if (IS_ERR(hdev->device)) goto err_class;
\* otherwise return 0
InitDevice(e) == InitAcquire("device", "device", e, "loaded", "err_class")

\* one release of the clean-up code, which falls through to the next one
ErrStep(at, r, next) ==
    /\ mod.pc = at
    /\ mod' = [Release(mod, r) EXCEPT !.pc = next]
    /\ UNCHANGED <<regs, ipi_count, msg_count, work_pending, hdev, shared_mem>>
    /\ LoadFrame

\* err_class: class_destroy(hdev->class)
ErrClass == ErrStep("err_class", "class", "err_cdev")

\* err_cdev: cdev_del(&hdev->cdev)
ErrCdev == ErrStep("err_cdev", "cdev", "err_unreg")

\* err_unreg: unregister_chrdev_region(hdev->devno, 1)
ErrUnreg == ErrStep("err_unreg", "devno", IF mod.ver = "v3" THEN "err_free" ELSE "err_hdev")

\* err_free: kfree(hdev->mem_base)
ErrFree == ErrStep("err_free", "mem_base", "err_hdev")

\* kfree(hdev); return ret.  v2 returns PTR_ERR(hdev->class) or
\* PTR_ERR(hdev->device), which it reads from hdev after the kfree: x is the
\* word read
ErrHdev(x) ==
    /\ mod.pc = "err_hdev"
    /\ x \in IF mod.ver = "v2" /\ mod.fail \in {"class", "device"}
             THEN FreedRead(mod.ret) ELSE {mod.ret}
    /\ mod' = [Release(mod, "hdev") EXCEPT !.pc = "failed", !.ret = x]
    /\ UNCHANGED <<regs, ipi_count, msg_count, work_pending, hdev, shared_mem>>
    /\ LoadFrame

hetero_init ==
    \/ \E v \in Versions, ok \in BOOLEAN : InitKzalloc(v, ok)
    \/ \E ok \in BOOLEAN, g \in {0, HEAP_BYTE} : InitKmalloc(ok, g)
    \/ InitPointers
    \/ InitMemset
    \/ InitDefaults
    \/ InitBanner
    \/ InitWork
    \/ \E e \in {0} \cup LoadErrors : InitChrdev(e)
    \/ \E e \in {0} \cup LoadErrors : InitCdevAdd(e)
    \/ \E e \in {0} \cup LoadErrors : InitClass(e)
    \/ \E e \in {0} \cup LoadErrors : InitDevice(e)
    \/ ErrClass
    \/ ErrCdev
    \/ ErrUnreg
    \/ ErrFree
    \/ \E x \in FreedRead(0) \cup LoadErrors : ErrHdev(x)

\* faulty variant: the work item is left as it is
cancel_work_none(c) == UNCHANGED work_pending

\* cancel_work_sync(&hdev->core_work) for channel c: returns once no run of the
\* item is in progress, and the item is no longer queued
cancel_work_sync(c) ==
    /\ wk[c].pc = "idle"
    /\ work_pending' = [work_pending EXCEPT ![c] = FALSE]

\* hetero_exit is entered: the module is unloaded only while no file of the
\* device is open (hetero_fops.owner = THIS_MODULE).  v3 begins with
\* cancel_work_sync(&hdev->core0_work); v2 has no work items
ExitStart ==
    /\ mod.pc = "loaded"
    /\ mod.fds = {}
    /\ IF mod.ver = "v3"
       THEN /\ cancel_work_sync(0)
            /\ mod' = [mod EXCEPT !.pc = "exit_cancel1"]
       ELSE /\ UNCHANGED work_pending
            /\ mod' = [mod EXCEPT !.pc = "exit_device"]
    /\ UNCHANGED <<regs, ipi_count, msg_count, hdev, shared_mem>>
    /\ LoadFrame

\* cancel_work_sync(&hdev->core1_work)
ExitCancelCore1 ==
    /\ mod.pc = "exit_cancel1"
    /\ cancel_work_sync(1)
    /\ mod' = [mod EXCEPT !.pc = "exit_device"]
    /\ UNCHANGED <<regs, ipi_count, msg_count, hdev, shared_mem>>
    /\ LoadFrame

hetero_exit ==
    \/ ExitStart
    \/ ExitCancelCore1
    \/ ErrStep("exit_device", "device", "exit_class")
    \/ ErrStep("exit_class", "class", "exit_cdev")
    \/ ErrStep("exit_cdev", "cdev", "exit_unreg")
    \/ ErrStep("exit_unreg", "devno", IF mod.ver = "v3" THEN "exit_mem" ELSE "exit_hdev")
    \/ ErrStep("exit_mem", "mem_base", "exit_hdev")
    \/ ErrStep("exit_hdev", "hdev", "unloaded")

\* before the first insmod
InitLoad ==
    /\ regs = ZeroRegs
    /\ ipi_count = 0
    /\ msg_count = 0
    /\ jiffies = JiffiesInit
    /\ work_pending = [c \in Channels |-> FALSE]
    /\ wk = [c \in Channels |-> WkIdle]
    /\ cl = [p \in Callers |-> ClIdle]
    /\ user_core = 0
    /\ last = NoCall
    /\ calls = 0
    /\ ret_valid = 0
    /\ ret_invalid = 0
    /\ was_reset = FALSE
    /\ shared_mem = ShmFill(0)
    /\ mod = ModIdle
    /\ hdev = HdevInit
    /\ ctx = [p \in Callers |-> CtxIdle]
    /\ msg_done = 0
    /\ pinged = {}

NextLoad == hetero_init \/ hetero_exit

SpecLoad == InitLoad /\ [][NextLoad]_vars

(***************************************************************************)
(* Unloading the register driver while responder work may be queued or in  *)
(* progress: the user program opens the device, calls SEND_IPI on a        *)
(* channel or sends a mailbox message through its mapping, and closes the  *)
(* device, which drops the mapping with it; the module is then removed.    *)
(* The worker thread runs the responders whatever the module does.         *)
(***************************************************************************)
FileFrame ==
    /\ last' = NoCall
    /\ UNCHANGED <<regs, ipi_count, msg_count, work_pending, hdev, shared_mem>>
    /\ LoadFrame

\* open("/dev/hetero_soc"): file->private_data = hdev; return 0.  The open
\* takes a reference on the module, which must be live
hetero_open(p) ==
    /\ mod.pc = "loaded"
    /\ p \notin mod.fds
    /\ cl[p].pc = "idle"
    /\ mod' = [mod EXCEPT !.fds = @ \cup {p}]
    /\ FileFrame

\* the last reference to the file is dropped (munmap and close): return 0; no
\* call on the file is in progress
hetero_release(p) ==
    /\ p \in mod.fds
    /\ cl[p].pc = "idle"
    /\ mod' = [mod EXCEPT !.fds = @ \ {p}]
    /\ FileFrame

InitUnload == Init /\ user_core = 0

NextUnload ==
    \/ core0_response_work
    \/ core1_response_work
    \/ \E p \in User : hetero_open(p)
    \/ \E p \in User : hetero_release(p)
    \/ \E p \in User, core \in Channels :
           p \in mod.fds /\ calls < MaxCalls /\ SendIpiTrigger(p, core)
    \/ \E p \in User : SendIpiRead(p)
    \/ \E p \in User : SendIpiWrite(p)
    \/ \E p \in User : SendIpiInc(p)
    \/ \E p \in User : SendIpiSched(p)
    \/ \E p \in User, v \in CmdVals :
           p \in mod.fds /\ calls < MaxCalls /\ MboxWriteData(p, v)
    \/ \E p \in User : MboxWriteCmd(p)
    \/ \E p \in User : PollStatus(p)
    \/ \E p \in User : PollTimeout(p)
    \/ \E p \in User : PollResp(p)
    \/ \E p \in User : PollClear(p)
    \/ hetero_exit

SpecUnload == InitUnload /\ [][NextUnload]_vars

(***************************************************************************)
(* The control calls of hetero_soc_v2: hetero_ioctl on the four plain int  *)
(* fields of its device structure.  The handler is unlocked_ioctl and      *)
(* takes no lock, so every load and store of a field is a step.            *)
(***************************************************************************)
V2Frame ==
    /\ UNCHANGED <<regs, ipi_count, msg_count, jiffies, work_pending, wk, cl,
                   shared_mem, mod, user_core, ret_valid, ret_invalid>>

\* a reset is storing its zeros
ResetInProgress == \E q \in Callers : ctx[q].op = "reset"

\* _IOC_TYPE(cmd) != HETERO_IOC_MAGIC: return -ENOTTY; a cmd with the magic
\* that the switch has no case for: default: return -ENOTTY
V2Unknown(p, magic_ok) ==
    /\ ctx[p].pc = "idle"
    /\ last' = [op |-> "v2_unknown", arg |-> 0,
                ret |-> 0 - ENOTTY, pre |-> 0]
    /\ UNCHANGED <<hdev, ctx, msg_done, pinged, calls, was_reset>>
    /\ V2Frame

\* copy_from_user / copy_to_user fails on the argument of op: return -EFAULT
V2Fault(p, op) ==
    /\ ctx[p].pc = "idle"
    /\ last' = [op |-> op, arg |-> 0, ret |-> 0 - EFAULT, pre |-> 0]
    /\ UNCHANGED <<hdev, ctx, msg_done, pinged, calls, was_reset>>
    /\ V2Frame

\* faulty variant: the final else is missing, any other core_id is counted
PingCoreNoCheck(p, core) ==
    /\ ctx[p].pc = "idle"
    /\ hdev' = IF core = 0 THEN [hdev EXCEPT !.io_core_status = 1]
               ELSE IF core = 1 THEN [hdev EXCEPT !.rt_core_status = 1]
               ELSE hdev
    /\ ctx' = [ctx EXCEPT ![p] = [CtxIdle EXCEPT !.pc = "cnt_rd", !.op = "ping",
                                                 !.core_id = core,
                                                 !.clean = ~ResetInProgress]]
    /\ last' = NoCall
    /\ calls' = calls + 1
    /\ UNCHANGED <<msg_done, pinged, was_reset>>
    /\ V2Frame

\* HETERO_IOC_PING_CORE: core_id 0 sets io_core_status, 1 sets rt_core_status,
\* any other returns -EINVAL; clean records that no reset overlaps the call
PingCore(p, core) ==
    /\ ctx[p].pc = "idle"
    /\ hdev' = IF core = 0 THEN [hdev EXCEPT !.io_core_status = 1]
               ELSE IF core = 1 THEN [hdev EXCEPT !.rt_core_status = 1]
               ELSE hdev
    /\ ctx' = IF core \in {0, 1}
              THEN [ctx EXCEPT ![p] = [CtxIdle EXCEPT !.pc = "cnt_rd", !.op = "ping",
                                                      !.core_id = core,
                                                      !.clean = ~ResetInProgress]]
              ELSE ctx
    /\ last' = IF core \in {0, 1} THEN NoCall
               ELSE [op |-> "ping", arg |-> core, ret |-> 0 - EINVAL, pre |-> 0]
    /\ calls' = calls + 1
    /\ UNCHANGED <<msg_done, pinged, was_reset>>
    /\ V2Frame

\* HETERO_IOC_SEND_MSG: hdev->last_cmd = msg.cmd (msg.core_id is not examined)
SendMsg(p, core, cmd) ==
    /\ ctx[p].pc = "idle"
    /\ hdev' = [hdev EXCEPT !.last_cmd = cmd]
    /\ ctx' = [ctx EXCEPT ![p] = [CtxIdle EXCEPT !.pc = "cnt_rd", !.op = "send_msg",
                                                 !.core_id = core]]
    /\ last' = NoCall
    /\ calls' = calls + 1
    /\ UNCHANGED <<msg_done, pinged, was_reset>>
    /\ V2Frame

\* hdev->msg_count++: the load
MsgCountRead(p) ==
    /\ ctx[p].pc = "cnt_rd"
    /\ ctx' = [ctx EXCEPT ![p].pc = "cnt_wr", ![p].tmp = hdev.msg_count]
    /\ last' = NoCall
    /\ UNCHANGED <<hdev, msg_done, pinged, calls, was_reset>>
    /\ V2Frame

\* hdev->msg_count++: the store; break; return ret (0)
MsgCountWrite(p) ==
    /\ ctx[p].pc = "cnt_wr"
    /\ hdev' = [hdev EXCEPT !.msg_count = ctx[p].tmp + 1]
    /\ ctx' = [ctx EXCEPT ![p] = CtxIdle]
    /\ last' = [op |-> ctx[p].op, arg |-> ctx[p].core_id, ret |-> 0, pre |-> 0]
    /\ msg_done' = msg_done + 1
    /\ pinged' = IF ctx[p].op = "ping" /\ ctx[p].clean
                 THEN pinged \cup {ctx[p].core_id} ELSE pinged
    /\ UNCHANGED <<calls, was_reset>>
    /\ V2Frame

\* HETERO_IOC_GET_STATUS: the load of hdev->io_core_status; seen records the
\* cores known to be online when the call starts
GetStatusReadIo(p) ==
    /\ ctx[p].pc = "idle"
    /\ ctx' = [ctx EXCEPT ![p] = [CtxIdle EXCEPT !.pc = "st_rt", !.op = "get_status",
                                                 !.io = hdev.io_core_status,
                                                 !.seen = pinged]]
    /\ last' = NoCall
    /\ calls' = calls + 1
    /\ UNCHANGED <<hdev, msg_done, pinged, was_reset>>
    /\ V2Frame

\* ret = (io_core_status << 0) | (rt_core_status << 1): the load of
\* rt_core_status; copy_to_user(arg, &ret); break; return ret.  last.pre is the
\* word stored for the caller, last.ret the value returned
GetStatusReadRt(p) ==
    /\ ctx[p].pc = "st_rt"
    /\ ctx' = [ctx EXCEPT ![p] = CtxIdle]
    /\ last' = [op |-> "get_status", arg |-> 0,
                ret |-> BitOr(ctx[p].io, 2 * hdev.rt_core_status),
                pre |-> BitOr(ctx[p].io, 2 * hdev.rt_core_status)]
    /\ UNCHANGED <<hdev, msg_done, pinged, calls, was_reset>>
    /\ V2Frame

\* HETERO_IOC_RESET: hdev->io_core_status = 0.  Calls that the reset overlaps
\* no longer count as completed before or after it
V2ResetIo(p) ==
    /\ ctx[p].pc = "idle"
    /\ hdev' = [hdev EXCEPT !.io_core_status = 0]
    /\ ctx' = [q \in Callers |->
                 IF q = p THEN [CtxIdle EXCEPT !.pc = "rs_rt", !.op = "reset"]
                 ELSE [ctx[q] EXCEPT !.clean = FALSE, !.seen = {}]]
    /\ pinged' = {}
    /\ was_reset' = TRUE
    /\ last' = NoCall
    /\ calls' = calls + 1
    /\ UNCHANGED msg_done
    /\ V2Frame

\* hdev->rt_core_status = 0
V2ResetRt(p) ==
    /\ ctx[p].pc = "rs_rt"
    /\ hdev' = [hdev EXCEPT !.rt_core_status = 0]
    /\ ctx' = [ctx EXCEPT ![p].pc = "rs_cnt"]
    /\ last' = NoCall
    /\ UNCHANGED <<msg_done, pinged, calls, was_reset>>
    /\ V2Frame

\* hdev->msg_count = 0
V2ResetCount(p) ==
    /\ ctx[p].pc = "rs_cnt"
    /\ hdev' = [hdev EXCEPT !.msg_count = 0]
    /\ ctx' = [ctx EXCEPT ![p].pc = "rs_cmd"]
    /\ last' = NoCall
    /\ UNCHANGED <<msg_done, pinged, calls, was_reset>>
    /\ V2Frame

\* hdev->last_cmd = 0; break; return ret (0)
V2ResetCmd(p) ==
    /\ ctx[p].pc = "rs_cmd"
    /\ hdev' = [hdev EXCEPT !.last_cmd = 0]
    /\ ctx' = [ctx EXCEPT ![p] = CtxIdle]
    /\ last' = [op |-> "v2_reset", arg |-> 0, ret |-> 0, pre |-> 0]
    /\ UNCHANGED <<msg_done, pinged, calls, was_reset>>
    /\ V2Frame

NextV2 ==
    \/ \E p \in Callers, magic_ok \in BOOLEAN : V2Unknown(p, magic_ok)
    \/ \E p \in Callers, op \in {"ping", "get_status", "send_msg"} : V2Fault(p, op)
    \/ \E p \in Callers, core \in CoreIds : calls < MaxMsgOps /\ PingCore(p, core)
    \/ \E p \in Callers, core \in CoreIds, cmd \in {CMD_STATUS} :
          calls < MaxMsgOps /\ SendMsg(p, core, cmd)
    \/ \E p \in Callers : MsgCountRead(p)
    \/ \E p \in Callers : MsgCountWrite(p)
    \/ \E p \in Callers : calls < MaxMsgOps /\ GetStatusReadIo(p)
    \/ \E p \in Callers : GetStatusReadRt(p)
    \/ \E p \in Callers : calls < MaxMsgOps /\ V2ResetIo(p)
    \/ \E p \in Callers : V2ResetRt(p)
    \/ \E p \in Callers : V2ResetCount(p)
    \/ \E p \in Callers : V2ResetCmd(p)

\* hetero_soc_v2 after a successful hetero_init (it has no register block)
ModLoadedV2 == [ModIdle EXCEPT !.ver = "v2", !.pc = "loaded",
                               !.held = Resources \ {"mem_base"},
                               !.got = Resources \ {"mem_base"}]

InitV2 ==
    /\ regs = ZeroRegs
    /\ ipi_count = 0
    /\ msg_count = 0
    /\ jiffies = JiffiesInit
    /\ work_pending = [c \in Channels |-> FALSE]
    /\ wk = [c \in Channels |-> WkIdle]
    /\ cl = [p \in Callers |-> ClIdle]
    /\ user_core = 0
    /\ last = NoCall
    /\ calls = 0
    /\ ret_valid = 0
    /\ ret_invalid = 0
    /\ was_reset = FALSE
    /\ shared_mem = ShmFill(0)
    /\ mod = ModLoadedV2
    /\ hdev = HdevInit
    /\ ctx = [p \in Callers |-> CtxIdle]
    /\ msg_done = 0
    /\ pinged = {}

SpecV2 == InitV2 /\ [][NextV2]_vars

(***************************************************************************)
(* The user program with the workqueue's guarantee that a queued work item *)
(* is eventually run and a running one eventually finishes.                *)
(***************************************************************************)
FairSpec ==
    Spec /\ WF_vars(core0_response_work) /\ WF_vars(core1_response_work)

(***************************************************************************)
(*                              The claims                                 *)
(***************************************************************************)

\* caller p wrote PING into the idle mailbox of channel c, its SEND_IPI call
\* has returned and it polls for the response
Pinged(p, c) ==
    /\ cl[p].pc = "poll"
    /\ cl[p].core_id = c
    /\ cl[p].cmd = CMD_PING
    /\ cl[p].from_idle

PongReady(c) == regs[StatusReg(c)] # 0 /\ regs[RespReg(c)] = RESP_PONG

\* caller p began another operation on the channel after its PING: a reset has
\* just returned or p has started the next mailbox message
Abandoned(p) == last.op = "reset" \/ cl[p].pc = "wr_cmd"

\* C1 (as claimed, at channel 0): from an idle channel 0 (cmd[0] = 0 and
\* status[0] = 0), once PING is written and send_ipi(0) has returned, under fair
\* scheduling of the responder a state with status[0] != 0 and resp[0] = 0x8001
\* is eventually reached, unless the caller itself resets or starts the next
\* message first.  Violated: a responder run that read an earlier command
\* before a RESET emptied the channel answers that earlier command after the
\* PING is written and erases the PING unread.
C1_PingAnsweredOnChannel0 ==
    \A p \in User : Pinged(p, 0) ~> (PongReady(0) \/ Abandoned(p))

\* the step in which the responder of channel c stores its response code
WritesResp(c) == wk[c].pc = "wr_resp" /\ wk'[c].pc # "wr_resp"

\* the command pending on channel c when its responder answers: channel 0
\* answers the command it read, channel 1 never reads the register
PendingCmd(c) == IF c = 0 THEN wk[0].cmd ELSE regs[CmdReg(1)]

\* what the channel-1 responder stores whatever the command is
Core1Answers ==
    WritesResp(1) => regs'[RespReg(1)] = RESP_RT + (jiffies % 256)

Quiescent ==
    /\ \A c \in Channels : wk[c].pc = "idle" /\ ~work_pending[c]
    /\ \A p \in Callers : cl[p].pc = "idle"

\* C5 (as claimed): after reset() with no concurrent activity ipi_enable = 0x3
\* and hw_mutex_status = 0xFFFF.  Violated: the reset leaves both at 0.
C5_ResetRestoresDefaults ==
    (last.op = "reset" /\ Quiescent)
        => /\ regs["ipi_enable"] = IPI_ENABLE_INIT
           /\ regs["hw_mutex_status"] = MUTEX_ALL_FREE

\* C6: after reset() ipi_status, ipi_trigger, ipi_clear, all mailbox registers of
\* both channels, hw_mutex_request, hw_mutex_release and both counters are 0.
C6_ResetZeroes ==
    last.op = "reset"
        => /\ \A r \in RegNames \ {"ipi_enable", "hw_mutex_status"} : regs[r] = 0
           /\ ipi_count = 0
           /\ msg_count = 0

\* a reset has just returned, called with no concurrent activity when the
\* counter was not zero
C6_Witness == last.op = "reset" /\ last.pre > 0 /\ Quiescent

\* C7: a reset() directly following a reset() leaves registers and counters as
\* the first one left them.
C7_ResetIdempotent ==
    [][(last.op = "reset" /\ last'.op = "reset")
          => /\ regs' = regs
             /\ ipi_count' = ipi_count
             /\ msg_count' = msg_count]_vars

\* the second of two consecutive resets has just returned, in a run in which
\* a send_ipi had returned before
C7_Witness == last.op = "reset" /\ last.arg = 1 /\ was_reset /\ ret_valid > 0

\* a step of caller p inside a send_ipi call whose channel id is not 0 or 1
InvalidSendIpiStep(p) ==
    /\ cl'[p] # cl[p]
    /\ \/ cl[p].pc = "idle" /\ cl'[p].pc = "ipi_rd" /\ cl'[p].core_id \notin Channels
       \/ cl[p].pc \in {"ipi_rd", "ipi_wr", "ipi_inc", "ipi_sched"}
             /\ cl[p].core_id \notin Channels

\* C4 (as claimed): send_ipi with a channel id outside {0,1} changes neither
\* ipi_trigger, ipi_status nor ipi_count, schedules no work and returns an
\* out-of-range error.  Violated: the call is carried out and returns 0.
C4_InvalidChannelRejected ==
    [][\A p \in Callers :
         InvalidSendIpiStep(p)
             => /\ regs'["ipi_trigger"] = regs["ipi_trigger"]
                /\ regs'["ipi_status"] = regs["ipi_status"]
                /\ ipi_count' = ipi_count
                /\ work_pending' = work_pending
                /\ (cl'[p].pc = "idle" => last'.ret = 0 - EINVAL)]_vars

\* the calls that have passed the counter increment but not yet returned
CountedInFlight == Cardinality({p \in Callers : cl[p].pc = "ipi_sched"})

\* C8: with no reset in between, ipi_count is the number of send_ipi calls that
\* have been counted (returned, or past the increment); in particular once n
\* calls on valid channels, and no others, have returned and none is in flight,
\* ipi_count = n.  No increment is lost in any interleaving.
C8_NoLostIncrement ==
    ~was_reset
        => /\ ipi_count = ret_valid + ret_invalid + CountedInFlight
           /\ ((\A p \in Callers : cl[p].pc = "idle") /\ ret_invalid = 0)
                 => ipi_count = ret_valid

\* two callers are inside send_ipi on valid channels at the same time, both
\* past the increment, and both increments are in the counter
C8_Witness ==
    /\ ~was_reset
    /\ \A p \in {1, 2} : cl[p].pc = "ipi_sched" /\ cl[p].core_id \in Channels
    /\ ipi_count = 2

\* caller p has written its request and not yet written its release
Requested(p) == cl[p].pc \in {"mtx_rd", "mtx_held"}

\* C9 (as claimed): with two requesters whose requests are both outstanding,
\* every requested bit is held, disjoint masks being acquired in full and a
\* contested bit by one of the two; a requester that found its bits free and
\* reads the status back sees them held.  Violated: hw_mutex_status never
\* changes on a request.
C9_ConcurrentRequestsAcquire ==
    \A p, q \in Callers :
        (p # q /\ Requested(p) /\ Requested(q))
            => /\ BitAnd(regs["hw_mutex_status"], BitOr(cl[p].mask, cl[q].mask)) = 0
               /\ (cl[p].pc = "mtx_held" => BitAnd(cl[p].post, cl[p].mask) = 0)

\* the step in which caller p writes its mask to hw_mutex_request
RequestStep(p) == cl[p].pc = "mtx_req" /\ cl'[p].pc = "mtx_rd"

\* C10 (as claimed): a request for mask m clears in hw_mutex_status exactly the
\* bits of m that were free and leaves every other bit as it was.  Violated:
\* the write changes hw_mutex_request only.
C10_RequestClearsFreeBits ==
    [][\A p \in Callers :
         RequestStep(p)
             => regs'["hw_mutex_status"]
                    = BitClear(regs["hw_mutex_status"], cl[p].mask)]_vars

\* the step in which caller p writes its mask to hw_mutex_release
ReleaseStep(p) == cl[p].pc = "mtx_held" /\ cl'[p].pc = "mtx_rel_rd"

\* C11 (as claimed): a release for mask m sets every bit of m in
\* hw_mutex_status to free (1) whoever held it and leaves the other bits as they
\* were.  Violated: the write changes hw_mutex_release only, so bits that are
\* held (all of them after a RESET) stay held.
C11_ReleaseFreesBits ==
    [][\A p \in Callers :
         ReleaseStep(p)
             => regs'["hw_mutex_status"]
                    = BitOr(regs["hw_mutex_status"], cl[p].mask)]_vars

\* caller p has an outstanding message on channel 0 whose command replaced an
\* earlier, different one before the responder had read the register
Overwritten(p) ==
    /\ cl[p].mode = "mbox"
    /\ cl[p].core_id = 0
    /\ cl[p].pc \in {"call_ipi", "ipi_rd", "ipi_wr", "ipi_inc", "ipi_sched",
                     "poll", "rd_resp", "clr_stat"}
    /\ cl[p].prev # 0
    /\ cl[p].prev # cl[p].cmd
    /\ cl[p].clean

\* C12: when command B replaced command A in cmd[0] before the responder read
\* the register, every response the responder stores for the message answers
\* B, never A, and it is the only one: no response is waiting when it is
\* stored.
C12_OverwriteProcessedOnce ==
    [][\A p \in User :
         (WritesResp(0) /\ Overwritten(p))
             => /\ wk[0].cmd = cl[p].cmd
                /\ wk[0].cmd # cl[p].prev
                /\ regs[StatusReg(0)] = 0]_vars

\* the responder has just answered B after B replaced A, and A is gone
C12_Witness ==
    \E p \in User :
        /\ Overwritten(p)
        /\ cl[p].pc = "poll"
        /\ wk[0].pc = "clr_cmd"
        /\ wk[0].cmd = cl[p].cmd
        /\ cl[p].prev = CMD_PING
        /\ cl[p].cmd = CMD_STATUS

\* a step of caller p inside a send_ipi call, from its first statement to its
\* return
SendIpiStep(p) ==
    /\ cl'[p] # cl[p]
    /\ \/ cl'[p].pc = "ipi_rd"
       \/ cl[p].pc \in {"ipi_rd", "ipi_wr", "ipi_inc", "ipi_sched"}

\* the four mailbox registers of channel c
MailboxRegs(c) == {CmdReg(c), DataReg(c), StatusReg(c), RespReg(c)}

\* C13: no step of a send_ipi call modifies a mailbox register of any channel
\* or advances a responder: the response is never produced inside the call.
C13_SendIpiAsynchronous ==
    [][\A p \in Callers :
         SendIpiStep(p)
             => /\ \A c \in Channels : \A r \in MailboxRegs(c) : regs'[r] = regs[r]
                /\ wk' = wk]_vars

\* send_ipi(0) has just returned with the command still pending and no
\* response yet: the responder is queued and has not started
C13_Witness ==
    /\ last.op = "send_ipi"
    /\ last.arg = 0
    /\ last.ret = 0
    /\ regs[CmdReg(0)] # 0
    /\ regs[StatusReg(0)] = 0
    /\ work_pending[0]
    /\ wk[0].pc = "idle"

\* a step of the responder of channel c in a run that finds no command:
\* channel 0 has read 0 (or is about to read), channel 1 has 0 in its register
IdleRunStep(c) ==
    /\ wk'[c] # wk[c]
    /\ IF c = 0 THEN wk[0].cmd = 0 /\ wk'[0].cmd = 0
                ELSE regs[CmdReg(1)] = 0

Ticks == JiffiesInit..(JiffiesInit + MaxTicks)

\* the response codes that answer command cmd, over the possible ticks
ExpectedResp(cmd) ==
    IF cmd = CMD_PING THEN {RESP_PONG}
    ELSE IF cmd = CMD_STATUS THEN {BitOr(RESP_STATUS, t % 256) : t \in Ticks}
    ELSE {RESP_UNKNOWN}

\* the step that completes the mailbox transition of channel c's responder
CompletesResp(c) == wk[c].pc = "set_stat" /\ wk'[c].pc = "ipi_rd"

AwaitsRead(p, b) ==
    /\ cl[p].pc = "poll"
    /\ cl[p].core_id = 0
    /\ cl[p].cmd = b
    /\ regs[CmdReg(0)] = b

\* C16 (as claimed, at channel 0): the command most recently written before a
\* send_ipi(0) call is read by a responder run, also when an earlier run is in
\* progress at the call, unless the caller resets or starts the next message.
\* Violated: the run in progress, having read the earlier command, clears the
\* register after the new command is written, and the run the call queued
\* reads 0.
C16_LatestCommandObserved ==
    \A p \in User, b \in CmdVals :
        AwaitsRead(p, b) ~> (wk[0].cmd = b \/ Abandoned(p))

(***************************************************************************)
(* C20.  The size check of the map operation.                              *)
(***************************************************************************)
\* a step in which a call of the map operation returns
MmapStep == last'.op = "mmap" /\ <<last', cl'>> # <<last, cl>>

\* the step establishes a mapping of size bytes for one caller, and that only
MapsRegion(size) == \E p \in Callers : /\ cl[p].mapped = 0
                                       /\ cl' = [cl EXCEPT ![p].mapped = size]

\* C20 as stated: the map operation fails with -EINVAL and maps nothing when
\* the requested size exceeds TOTAL_SIZE (36864), and succeeds, mapping the
\* region, for every requested size up to and including TOTAL_SIZE.
C20_MapSizeAlone ==
    [][MmapStep =>
          IF last'.arg > TOTAL_SIZE
          THEN last'.ret = 0 - EINVAL /\ cl' = cl
          ELSE last'.ret = 0 /\ MapsRegion(last'.arg)]_vars

\* C20 amended: the map operation fails with -EINVAL and maps nothing when the
\* requested size exceeds TOTAL_SIZE; for every size up to and including
\* TOTAL_SIZE it returns what remap_pfn_range returns: 0 with the region
\* mapped, or the kernel's error with nothing mapped.
C20_MapSize ==
    [][MmapStep =>
          IF last'.arg > TOTAL_SIZE
          THEN last'.ret = 0 - EINVAL /\ cl' = cl
          ELSE /\ last'.ret = last'.pre
               /\ last'.pre = 0 => MapsRegion(last'.arg)
               /\ last'.pre # 0 => cl' = cl]_vars

\* the whole region, registers and shared memory, has just been mapped
C20_Witness ==
    /\ last.op = "mmap" /\ last.arg = TOTAL_SIZE /\ last.ret = 0
    /\ \E p \in Callers : cl[p].mapped = TOTAL_SIZE

(***************************************************************************)
(* C17.  Who writes the response and status registers of a channel.        *)
(***************************************************************************)
\* the step is one of responder c (every statement of a responder moves its
\* position; no other step does, see C13)
ResponderStep(c) == wk'[c] # wk[c]

\* C17: a step that is not of the responder of channel c (a step of get_info,
\* of send_ipi for any channel, of the map operation, of the other responder)
\* leaves status[c] and resp[c] unchanged, and a step of the responder of
\* channel c leaves every mailbox register of the other channel unchanged.
C17_OnlyWriter ==
    [][\A c \in Channels :
          /\ ~ResponderStep(c) => /\ regs'[StatusReg(c)] = regs[StatusReg(c)]
                                  /\ regs'[RespReg(c)] = regs[RespReg(c)]
          /\ ResponderStep(c) => \A r \in MailboxRegs(1 - c) : regs'[r] = regs[r]]_vars

\* get_info has just returned while the channel-1 responder is between its two
\* writes, and channel 0's PONG is still in place
C17_Witness ==
    /\ last.op = "get_info"
    /\ wk[1].pc = "set_stat" /\ regs[RespReg(1)] # 0 /\ regs[StatusReg(1)] = 0
    /\ regs[StatusReg(0)] = 1 /\ regs[RespReg(0)] = RESP_PONG

(***************************************************************************)
(* C18.  The effect and the result of send_ipi on a valid channel.         *)
(***************************************************************************)
\* caller p's call moves from position from to another one
CallMoves(p, from) == cl[p].pc \in from /\ cl'[p].pc \notin from

\* C18: a send_ipi call for a valid channel c stores a word with bit c set in
\* ipi_trigger; its read-modify-write of ipi_status loads the register and
\* stores the loaded value OR bit c, so the other channel's bit is stored as
\* it was loaded; and the call returns 0.
C18_SendIpiEffect ==
    [][\A p \in Callers :
          LET c == cl'[p].core_id
              b == cl[p].core_id
          IN  /\ (CallMoves(p, {"idle", "call_ipi"}) /\ cl'[p].pc = "ipi_rd" /\ c \in Channels)
                    => BitAnd(regs'["ipi_trigger"], Bit(c)) = Bit(c)
              /\ (CallMoves(p, {"ipi_rd"}) /\ b \in Channels)
                    => cl'[p].tmp = regs["ipi_status"] /\ regs' = regs
              /\ (CallMoves(p, {"ipi_wr"}) /\ b \in Channels)
                    => /\ regs'["ipi_status"] = BitOr(cl[p].tmp, Bit(b))
                       /\ BitAnd(regs'["ipi_status"], Bit(1 - b)) = BitAnd(cl[p].tmp, Bit(1 - b))
              /\ (CallMoves(p, {"ipi_sched"}) /\ b \in Channels)
                    => last' = [op |-> "send_ipi", arg |-> b, ret |-> 0, pre |-> 0]]_vars

\* send_ipi(0) has stored ipi_status with the other channel's bit, set by a
\* send_ipi(1), kept
C18_Witness ==
    \E p \in Callers : /\ cl[p].pc = "ipi_inc" /\ cl[p].core_id = 0
                       /\ regs["ipi_status"] = BitOr(Bit(0), Bit(1))
                       /\ regs["ipi_trigger"] = Bit(0)

(***************************************************************************)
(* C19.  The observable state of a channel under a compliant caller.       *)
(***************************************************************************)
\* the state a reader of the register page r sees channel c in
ChanState(r, c) == IF r[StatusReg(c)] # 0 THEN "RESPONSE_READY"
                   ELSE IF r[CmdReg(c)] # 0 THEN "CMD_PENDING"
                   ELSE "IDLE"

ChanCycle == {<<"IDLE", "CMD_PENDING">>, <<"CMD_PENDING", "RESPONSE_READY">>,
              <<"RESPONSE_READY", "IDLE">>}

\* C19: with a caller that keeps to the protocol, the observable state of
\* each channel changes only along IDLE -> CMD_PENDING -> RESPONSE_READY ->
\* IDLE; the responder never shows cmd = 0 and status = 0 on its way to a
\* non-zero status.
C19_ChannelCycle ==
    [][\A c \in Channels :
          ChanState(regs', c) # ChanState(regs, c)
             => <<ChanState(regs, c), ChanState(regs', c)>> \in ChanCycle]_vars

(***************************************************************************)
(* C22.  The shared memory region after initialization.                    *)
(***************************************************************************)
\* hetero_init of the register driver has returned 0
LoadedV3 == mod.pc = "loaded" /\ mod.ver = "v3"

\* C22 as stated: after a successful initialization every byte of the shared
\* memory region is zero, and the region starts at offset 4096, directly after
\* the register bank.
C22_SharedMemoryZero ==
    LoadedV3 => /\ \A i \in ShmOffsets : shared_mem[i] = 0
                /\ mod.shared_off = REG_SPACE_SIZE

\* C22 amended: after a successful initialization the shared memory region
\* holds the 42 characters of the banner at its start and zero in every other
\* byte (the banner's terminating NUL included), and the region starts at
\* offset 4096, directly after the register bank.
C22_SharedMemoryBanner ==
    LoadedV3 => /\ \A i \in ShmOffsets :
                      shared_mem[i] = IF i < Len(Banner) THEN Banner[i + 1] ELSE 0
                /\ mod.shared_off = REG_SPACE_SIZE

\* the module is loaded, on memory that was not zero when kmalloc returned it
C22_Witness ==
    /\ LoadedV3
    /\ shared_mem[0] = Banner[1]
    /\ shared_mem[ShmModelled - 1] = 0

(***************************************************************************)
(* C23.  A failed initialization leaves nothing behind.                    *)
(***************************************************************************)
\* C23: when hetero_init has failed it has returned an error (a negative
\* value), the module holds no resource, every resource acquired before the
\* failing step has been released exactly once, and nothing else was released.
C23_FailedInitLeavesNothing ==
    mod.pc = "failed" =>
        /\ mod.ret < 0
        /\ mod.held = {}
        /\ \A r \in Resources : mod.freed[r] = IF r \in mod.got THEN 1 ELSE 0

(***************************************************************************)
(* C21.  A control request with an unrecognized operation code.            *)
(***************************************************************************)
\* a step in which a call with an operation code of no case returns
UnknownStep == last'.op \in {"unknown", "v2_unknown"} /\ last' # last

\* C21: a control request with an unrecognized operation code returns an error
\* (-EINVAL from the register driver, -ENOTTY from hetero_soc_v2) and changes
\* no register, no status field and neither counter.
C21_UnknownOperationRejected ==
    [][UnknownStep =>
          /\ last'.ret = IF last'.op = "unknown" THEN 0 - EINVAL ELSE 0 - ENOTTY
          /\ regs' = regs
          /\ hdev' = hdev
          /\ ipi_count' = ipi_count
          /\ msg_count' = msg_count]_vars

\* an unrecognized request has been refused while the IPI counter and the
\* channel 0 mailbox hold the traces of earlier calls
C21_Witness ==
    /\ last.op = "unknown" /\ last.ret = 0 - EINVAL
    /\ ipi_count > 0
    /\ regs[RespReg(0)] = RESP_PONG

(***************************************************************************)
(* C24.  PING_CORE and GET_STATUS of hetero_soc_v2.                        *)
(***************************************************************************)
StatusFlag(c) == IF c = 0 THEN hdev.io_core_status ELSE hdev.rt_core_status

\* C24: a ping of core 0 or 1 returns 0 and its core's flag stays 1, and is
\* reported as a set bit by every get_status started afterwards, as long as
\* no reset starts; a ping of any other core_id returns -EINVAL and changes
\* neither the status flags nor msg_count.
C24_PingMarksOnline ==
    [][/\ \A c \in pinged' : StatusFlag(c)' = 1
       /\ \A p \in Callers :
            /\ \A c \in CoreIds \ {0, 1} :
                  (ctx[p].pc = "idle" /\ last'.op = "ping" /\ last'.arg = c /\ calls' # calls)
                     => /\ last'.ret = 0 - EINVAL
                        /\ hdev' = hdev
            /\ (ctx[p].pc = "cnt_wr" /\ ctx[p].op = "ping" /\ ctx'[p].pc = "idle")
                  => /\ ctx[p].core_id \in {0, 1}
                     /\ last' = [op |-> "ping", arg |-> ctx[p].core_id, ret |-> 0, pre |-> 0]
            /\ (ctx[p].pc = "st_rt" /\ ctx'[p].pc = "idle")
                  => \A c \in ctx[p].seen : BitAnd(last'.pre, Bit(c)) = Bit(c)]_vars

\* get_status has just reported both cores online, each pinged before
C24_Witness ==
    /\ last.op = "get_status" /\ last.pre = 3
    /\ pinged = {0, 1}

(***************************************************************************)
(* C25.  The message counter under concurrent callers.                     *)
(***************************************************************************)
\* C25: without a reset, once the message operations in flight have returned,
\* msg_count is the number of message operations that returned 0.
C25_MsgCountExact ==
    (~was_reset /\ \A p \in Callers : ctx[p].pc = "idle") => hdev.msg_count = msg_done

(***************************************************************************)
(* C26.  GET_INFO.                                                         *)
(***************************************************************************)
\* a step in which a GET_INFO returns
GetInfoStep == last'.op = "get_info" /\ <<last', cl'>> # <<last, cl>>

\* the caller's structure after the step, the other callers being as before
InfoGiven(p) == /\ cl[p].pc = "idle"
                /\ cl' = [cl EXCEPT ![p].info = cl'[p].info]

\* C26: in every state, a GET_INFO that returns 0 has given its caller
\* num_cores = 6, reg_size = 4096, shared_size = 32768, reg_base = 0 and
\* shared_base = 4096; it returns nothing else but -EFAULT, when the caller's
\* structure cannot be written; and it changes no register and no counter.
C26_GetInfoConstant ==
    [][GetInfoStep =>
          /\ last'.ret \in {0, 0 - EFAULT}
          /\ last'.ret = 0 =>
                \E p \in Callers :
                   /\ InfoGiven(p)
                   /\ cl'[p].info.num_cores = 6
                   /\ cl'[p].info.reg_size = 4096
                   /\ cl'[p].info.shared_size = 32768
                   /\ cl'[p].info.reg_base = 0
                   /\ cl'[p].info.shared_base = 4096
          /\ last'.ret # 0 => cl' = cl
          /\ regs' = regs
          /\ ipi_count' = ipi_count
          /\ msg_count' = msg_count]_vars

\* GET_INFO has returned 0 after send_ipi calls and a response
C26_Witness ==
    /\ last.op = "get_info" /\ last.ret = 0
    /\ \E p \in Callers : cl[p].info.shared_base = REG_SPACE_SIZE
    /\ ipi_count > 0
    /\ regs[StatusReg(0)] = 1

(***************************************************************************)
(* C27.  RESPONSE_READY -> IDLE on channel 0.                              *)
(***************************************************************************)
\* caller p, on channel 0, writes 0 to status[0] after a PONG was produced
ClearsPong(p) ==
    /\ cl[p].pc = "clr_stat" /\ cl[p].core_id = 0 /\ cl'[p].pc = "idle"
    /\ regs[StatusReg(0)] = 1 /\ regs[RespReg(0)] = RESP_PONG

\* caller p, on channel 0, has no command outstanding and no send_ipi in
\* progress: it has not used the channel yet, or has cleared status[0] and
\* issued nothing since
AtRest(p) == cl[p].pc = "idle" /\ user_core = 0

\* C27: the caller's write of 0 to status[0] after a PONG leaves resp[0] at
\* 0x8001 and makes status[0] 0, and while the caller issues no further
\* command or send_ipi, status[0] remains 0.
C27_ClearLeavesResponse ==
    [][\A p \in User :
          /\ ClearsPong(p) => /\ regs'[RespReg(0)] = RESP_PONG
                              /\ regs'[StatusReg(0)] = 0
          /\ AtRest(p) => regs'[StatusReg(0)] = 0]_vars

\* the PONG has been read and acknowledged; the responder has finished
C27_Witness ==
    /\ \A p \in User : AtRest(p)
    /\ regs[RespReg(0)] = RESP_PONG /\ regs[StatusReg(0)] = 0 /\ regs[CmdReg(0)] = 0
    /\ wk[0].pc = "idle" /\ ~work_pending[0]

(***************************************************************************)
(* C28.  The response is in place when the status is raised (channel 0).   *)
(***************************************************************************)
\* caller p uses channel 0 and has a command outstanding
OnChannel0(p) == user_core = 0 /\ cl[p].core_id = 0 /\ cl[p].mode = "mbox"

\* C28: with a caller that keeps to the protocol on channel 0, in every state
\* with status[0] != 0 a command of the caller is outstanding and resp[0] is
\* the response code of that command, the one the responder consumed last;
\* and the response the caller has read after seeing status[0] != 0 is that
\* response code, never the one of an earlier command.
C28_ResponseBeforeStatus ==
    \A p \in User :
       /\ (user_core = 0 /\ regs[StatusReg(0)] # 0)
             => /\ OnChannel0(p)
                /\ cl[p].pc \in {"poll", "rd_resp", "clr_stat"}
                /\ regs[RespReg(0)] \in ExpectedResp(cl[p].cmd)
       /\ (OnChannel0(p) /\ cl[p].pc = "clr_stat")
             => cl[p].resp \in ExpectedResp(cl[p].cmd)

\* the caller has read the answer to its second command, a STATUS query, with
\* the response to its first command still in resp[0] when it was sent
C28_Witness ==
    \E p \in User : /\ OnChannel0(p) /\ cl[p].pc = "clr_stat"
                    /\ cl[p].cmd = CMD_STATUS
                    /\ cl[p].resp \in ExpectedResp(CMD_STATUS)
                    /\ calls = 2

(***************************************************************************)
(* C29.  One deferred responder context per channel.                       *)
(***************************************************************************)
\* a send_ipi call of core_id c reaches its schedule_work and returns
SchedulesStep(p, c) ==
    cl[p].pc = "ipi_sched" /\ cl[p].core_id = c /\ cl'[p].pc # "ipi_sched"

\* a run of channel c's responder starts
RunStarts(c) == wk[c].pc = "idle" /\ wk'[c].pc # "idle"

\* C29: each channel has one work item, which is queued or not and runs in
\* one place at a time: a run starts only when the item is queued, and takes
\* it off the queue; a send_ipi(c) that finds the item queued leaves it queued
\* once (the calls are coalesced into the run to come); a send_ipi(c) that
\* finds it not queued queues it, also while a run is in progress, which
\* causes one further run.  No send_ipi step moves a responder.
C29_OneResponderContext ==
    [][\A c \in Channels :
          /\ RunStarts(c) => work_pending[c] /\ ~work_pending'[c]
          /\ \A p \in Callers :
                SchedulesStep(p, c) => /\ work_pending'[c]
                                       /\ wk'[c] = wk[c]
                                       /\ work_pending'[1 - c] = work_pending[1 - c]
          /\ (work_pending'[c] /\ ~work_pending[c])
                => \E p \in Callers : SchedulesStep(p, c)]_vars

\* a send_ipi(0) issued after a run has started has queued one further run
C29_Witness ==
    /\ last = [op |-> "send_ipi", arg |-> 0, ret |-> 0, pre |-> 0]
    /\ wk[0].pc \notin {"idle", "rd_cmd"}
    /\ work_pending[0]
    /\ ipi_count = 2

(***************************************************************************)
(* C30.  ipi_status under concurrent send_ipi calls and responder runs.    *)
(***************************************************************************)
\* only send_ipi calls on valid channels have been made
ValidCallsOnly ==
    /\ ret_invalid = 0
    /\ \A p \in Callers : cl[p].pc # "idle" => cl[p].core_id \in Channels

\* a run for channel c is queued or in progress, or a send_ipi(c) that has
\* stored the bit is about to queue one
RunDue(c) ==
    \/ work_pending[c]
    \/ wk[c].pc # "idle"
    \/ \E p \in Callers : cl[p].core_id = c /\ cl[p].pc \in {"ipi_inc", "ipi_sched"}

\* C30: for any interleaving of send_ipi calls on valid channels and responder
\* runs, whenever bit c of ipi_status is set a responder run for channel c is
\* queued, in progress or about to be queued; so once every call has returned
\* and every scheduled run has finished, bits 0 and 1 of ipi_status are 0.
C30_IpiStatusTracksRuns ==
    ValidCallsOnly =>
       \A c \in Channels :
          BitAnd(regs["ipi_status"], Bit(c)) # 0 => RunDue(c)

(***************************************************************************)
(* C31.  The command the channel-0 responder clears.                       *)
(***************************************************************************)
\* the step in which the channel-0 responder executes
\* dev->regs->mbox_main_to_core0_cmd = 0
ClearsCmd0 == wk[0].pc = "clr_cmd" /\ wk'[0].pc = "set_stat"

\* C31 (as claimed): the channel-0 responder clears only the command it
\* actually read: when it stores 0 to cmd[0], the register still holds the
\* command this run read, so a command a caller wrote during the processing
\* delay is not erased unprocessed.  Violated: the store is unconditional.
C31_ClearsOnlyCommandRead ==
    [][ClearsCmd0 => regs[CmdReg(0)] = wk[0].cmd]_vars

(***************************************************************************)
(* C32.  RESET against responder work that is queued or in progress.       *)
(***************************************************************************)
\* a RESET has just returned and the step taken is not a caller's: no command
\* write and no send_ipi follows the reset
QuietAfterReset == last.op = "reset" /\ cl' = cl

\* C32 (as claimed): once reset() has returned and no command write or
\* send_ipi is issued afterwards, status[c] and resp[c] stay 0 for both
\* channels, even if a responder run was queued or in progress when reset()
\* was called.  Violated: RESET only clears the registers; a run that read its
\* command before the reset stores its response and status after it.
C32_ResetStaysClear ==
    [][QuietAfterReset =>
          \A c \in Channels : /\ regs'[StatusReg(c)] = 0
                              /\ regs'[RespReg(c)] = 0]_vars

(***************************************************************************)
(* C33.  Responder work at teardown.                                       *)
(***************************************************************************)
\* kfree(hdev->mem_base) has been executed by hetero_exit: the register bank
\* and the shared memory are released
MemoryFreed == "mem_base" \notin mod.held

\* C33: at teardown any queued or running responder work of both channels is
\* cancelled or has completed before the register bank and the shared memory
\* are released: when the memory is freed no work item is queued and no run is
\* in progress, and no responder run takes a step after the memory has been
\* freed.
C33_NoResponderAfterFree ==
    [][/\ MemoryFreed' => \A c \in Channels : /\ ~work_pending'[c]
                                               /\ wk'[c].pc = "idle"
       /\ \A c \in Channels : ResponderStep(c) => ~MemoryFreed]_vars

\* the module has been removed after a SEND_IPI on each channel whose work
\* items were cancelled while still queued
C33_Witness ==
    /\ MemoryFreed
    /\ mod.pc = "unloaded"
    /\ calls = 2
    /\ regs["ipi_status"] = 3
    /\ ipi_count = 2

====
